---- MODULE Spec2Model ----
(***************************************************************************)
(* Verification model of the control core of the multi-agent coding system *)
(*   - ReviewerAgent.is_approved           (src/agents/reviewer.py)        *)
(*   - CodingOrchestrator.run / plan_only / quick_code (src/orchestrator.py)*)
(*   - EnhancedOrchestrator.run and _extract_and_save_files                *)
(*                                         (src/enhanced_orchestrator.py)  *)
(*   - HierarchicalReasoner.reason  (src/prompts/hierarchical_reasoning.py)*)
(* Each component has its own specification over its own variables; the   *)
(* variables of the other components stay at their initial value.          *)
(***************************************************************************)
EXTENDS Integers, Sequences, FiniteSets, TLC

VARIABLES
    \* ---- CodingOrchestrator ----
    max_iterations,   \* self.max_iterations
    use_rag,          \* self.knowledge_base is not None
    op,               \* the public operation in progress
    pc,               \* position inside the operation
    existing_code,    \* run()'s optional argument (<<>> models None)
    context,          \* the context string handed to the first agent call
    result,           \* the TaskResult of run()
    current_code,     \* run()'s local current_code
    iteration,        \* run()'s loop variable
    calls,            \* every agent call made, in order, with its outcome
    kb_calls,         \* every knowledge-base call made, with its outcome
    retval,           \* what the operation returned
    planner_history,  \* self.planner.conversation_history
    operations,       \* how many of run, plan_only, quick_code were called
    \* ---- ReviewerAgent.is_approved as a pure function ----
    review_in,        \* the review text handed to is_approved
    verdict,          \* "none" before the call, then the verdict
    \* ---- HierarchicalReasoner ----
    r_pc,             \* position inside reason()
    node_counter,     \* self.node_counter
    all_nodes,        \* reason()'s all_nodes: every node, in creation order
    strategic_nodes,  \* positions in all_nodes of the strategic nodes
    tactical_nodes,   \* positions in all_nodes of the tactical nodes
    best_strategic,   \* position of the selected strategic node (0: none yet)
    op_index,         \* the tactical node the operational loop is at
    reasoning_path,   \* reason()'s reasoning_path
    model_calls,      \* every model.invoke made: level, response, nodes made
    trace,            \* the ReasoningTrace returned
    reason_calls,     \* how many times reason() was called on the reasoner
    \* ---- EnhancedOrchestrator ----
    mode,             \* self.mode
    e_pc,             \* position inside EnhancedOrchestrator.run
    auto_save,        \* run()'s argument
    auto_execute,     \* run()'s argument
    e_max_iterations, \* run()'s argument max_iterations
    full_context,     \* run()'s local full_context
    e_result,         \* the EnhancedTaskResult of run()
    e_iteration,      \* run()'s local iteration
    disk,             \* the file system: location -> content of the file
    writes,           \* the writes the latest extraction attempted
    e_calls,          \* every agent call made by run(), with its outcome
    e_retval          \* what run() returned

coVars == <<max_iterations, use_rag, op, pc, existing_code, context, result,
            current_code, iteration, calls, kb_calls, retval, planner_history,
            operations>>
apVars == <<review_in, verdict>>
reVars == <<r_pc, node_counter, all_nodes, strategic_nodes, tactical_nodes,
            best_strategic, op_index, reasoning_path, model_calls, trace,
            reason_calls>>
enVars == <<mode, e_pc, auto_save, auto_execute, e_max_iterations,
            full_context, e_result, e_iteration, disk, writes, e_calls,
            e_retval>>
nonCoVars == <<apVars, reVars, enVars>>
nonReVars == <<coVars, apVars, enVars>>
vars == <<coVars, apVars, reVars, enVars>>

(***************************************************************************)
(* Bounds of the model.                                                    *)
(***************************************************************************)
MaxIter == 3
MaxReviewLen == 4

(***************************************************************************)
(* Text.  A text is a sequence of tokens (lines or phrases); a token is a  *)
(* literal string.  The string operations the code uses are modelled on    *)
(* tokens: upper()/lower() map a token to its case-folded literal, and the *)
(* substring test `needle in text` holds when some token contains the      *)
(* needle.                                                                 *)
(***************************************************************************)
Tokens == {
    "## Review Summary", "## CRITICAL ISSUES", "## Critical Issues",
    "## Suggestions", "APPROVED", "approved", "NEEDS_CHANGES",
    "None identified", "Off-by-one error in loop bound",
    "crashes when the argument is None", " "}

Upper(t) ==
    CASE t = "## Review Summary" -> "## REVIEW SUMMARY"
      [] t = "## Critical Issues" -> "## CRITICAL ISSUES"
      [] t = "## Suggestions" -> "## SUGGESTIONS"
      [] t = "approved" -> "APPROVED"
      [] t = "user" -> "USER"
      [] t = "assistant" -> "ASSISTANT"
      [] t = "None identified" -> "NONE IDENTIFIED"
      [] t = "Off-by-one error in loop bound" -> "OFF-BY-ONE ERROR IN LOOP BOUND"
      [] t = "crashes when the argument is None" -> "CRASHES WHEN THE ARGUMENT IS NONE"
      [] OTHER -> t

Lower(t) ==
    CASE t = "## Review Summary" -> "## review summary"
      [] t = "## CRITICAL ISSUES" -> "## critical issues"
      [] t = "## Critical Issues" -> "## critical issues"
      [] t = "## Suggestions" -> "## suggestions"
      [] t = "APPROVED" -> "approved"
      [] t = "NEEDS_CHANGES" -> "needs_changes"
      [] t = "None identified" -> "none identified"
      [] t = "Off-by-one error in loop bound" -> "off-by-one error in loop bound"
      [] t = "crashes when the argument is None" -> "crashes when the argument is none"
      [] OTHER -> t

\* needle in s, for the literals that occur (case-sensitive, as Python's `in`)
Contains(s, needle) ==
    \/ s = needle
    \/ /\ needle = "##"
       /\ s \in {"## Review Summary", "## REVIEW SUMMARY", "## Critical Issues",
                 "## CRITICAL ISSUES", "## Suggestions", "## SUGGESTIONS",
                 "## review summary", "## critical issues", "## suggestions"}
    \/ /\ needle = "none"
       /\ s \in {"none identified", "crashes when the argument is none"}

UpperText(text) == [i \in DOMAIN text |-> Upper(text[i])]
LowerText(text) == [i \in DOMAIN text |-> Lower(text[i])]
InText(needle, text) == \E i \in DOMAIN text : Contains(text[i], needle)

\* index of the first token of text at or after position from that contains
\* needle; Len(text) + 1 when there is none
FirstAt(text, needle, from) ==
    IF \E i \in from..Len(text) : Contains(text[i], needle)
    THEN CHOOSE i \in from..Len(text) :
            /\ Contains(text[i], needle)
            /\ \A j \in from..(i - 1) : ~Contains(text[j], needle)
    ELSE Len(text) + 1

\* str.strip(): leading and trailing whitespace removed
IsSpace(t) == t = " "
RECURSIVE LStrip(_)
LStrip(text) ==
    IF text # <<>> /\ IsSpace(Head(text)) THEN LStrip(Tail(text)) ELSE text
RECURSIVE RStrip(_)
RStrip(text) ==
    IF text # <<>> /\ IsSpace(text[Len(text)])
    THEN RStrip(SubSeq(text, 1, Len(text) - 1)) ELSE text
Strip(text) == RStrip(LStrip(text))

\* text.split(sep)[1].split("##")[0]: what follows the first occurrence of
\* sep, up to the next "##"
SectionAfter(text, sep) ==
    LET h == FirstAt(text, sep, 1)
        e == FirstAt(text, "##", h + 1)
    IN  SubSeq(text, h + 1, e - 1)

(***************************************************************************)
(* ReviewerAgent.is_approved                                               *)
(***************************************************************************)
\* (mutant: any text in the Critical Issues section rejects, negation or not,
\* and the section is looked at first)
is_approved_NoNegation(review) ==
    LET review_upper == UpperText(review)
        critical_section == Strip(SectionAfter(review, "## Critical Issues"))
    IN  IF InText("## CRITICAL ISSUES", review_upper)
           /\ InText("## Critical Issues", review) /\ critical_section # <<>>
        THEN FALSE
        ELSE InText("APPROVED", review_upper)
\* (mutant: a Critical Issues section without a real issue approves)
is_approved_CleanSectionApproves(review) ==
    LET review_upper == UpperText(review)
        critical_section == Strip(SectionAfter(review, "## Critical Issues"))
    IN  IF /\ InText("## REVIEW SUMMARY", review_upper)
           /\ InText("APPROVED", review_upper)
           /\ ~InText("NEEDS_CHANGES", review_upper)
        THEN TRUE
        ELSE IF InText("## Critical Issues", review)
             THEN \/ critical_section = <<>>
                  \/ InText("none", LowerText(critical_section))
             ELSE InText("APPROVED", review_upper)
is_approved(review) ==
    LET review_upper == UpperText(review)
        splits == InText("## Critical Issues", review)   \* len(parts) > 1
        critical_section == Strip(SectionAfter(review, "## Critical Issues"))
    IN  IF /\ InText("## REVIEW SUMMARY", review_upper)
           /\ InText("APPROVED", review_upper)
           /\ ~InText("NEEDS_CHANGES", review_upper)
        THEN TRUE
        ELSE IF /\ InText("## CRITICAL ISSUES", review_upper)
                /\ splits
                /\ critical_section # <<>>
                /\ ~InText("none", LowerText(critical_section))
             THEN FALSE
             ELSE InText("APPROVED", review_upper)

(***************************************************************************)
(* CodingOrchestrator: the external collaborators' answers.                *)
(***************************************************************************)
\* what the reviewer model may answer
ReviewTexts == {
    <<"## Review Summary", "APPROVED", "## Critical Issues", "None identified">>,
    <<"## Review Summary", "APPROVED", "## Critical Issues",
      "Off-by-one error in loop bound">>,
    <<"## Review Summary", "NEEDS_CHANGES", "## Critical Issues",
      "Off-by-one error in loop bound">>,
    <<"approved">>,
    <<"## Suggestions", " ">>}

\* what the planner model may answer
PlanTexts == {<<"plan">>}

\* what the coder model may answer on its n-th call: nothing, or a fresh text
CodeTexts(n) == {<<>>, <<"code", n>>}

\* what the knowledge base may hold for a task
RagContexts == {<<>>, <<"rag context">>}

TaskStatus == {"pending", "planning", "coding", "reviewing", "fixing",
               "completed", "failed"}

NoResult == [status |-> "none"]
NoValue == [kind |-> "none"]
None == <<"None">>

\* TaskResult(task=task, status=TaskStatus.PENDING)
NewTaskResult ==
    [status |-> "pending", plan |-> <<>>, code |-> <<>>, review |-> <<>>,
     iterations |-> 0, history |-> <<>>]

\* one entry of result.history
\* (mutant: the record does not keep the iteration index)
IterationRecord_ZeroIndex(phase, it, output) ==
    [phase |-> phase, iteration |-> 0, output |-> output]
IterationRecord(phase, it, output) ==
    [phase |-> phase, iteration |-> it, output |-> output]

\* `context if context else None`
OrNone(text) == IF text = <<>> THEN None ELSE text

\* the task every operation is called with
Task == <<"task">>

\* PlannerAgent: system_prompt=PLANNER_SYSTEM_PROMPT
PLANNER_SYSTEM_PROMPT == <<"PLANNER_SYSTEM_PROMPT">>

\* BaseAgent._build_prompt keeps the last 5 entries of the history
HistoryWindow == 5

\* conversation_history[-n:]
LastEntries(history, n) ==
    SubSeq(history, IF Len(history) > n THEN Len(history) - n + 1 ELSE 1,
           Len(history))

\* one part "ROLE: content" per entry
RECURSIVE HistoryParts(_)
HistoryParts(entries) ==
    IF entries = <<>> THEN <<>>
    ELSE <<Upper(Head(entries).role), ":">> \o Head(entries).content
            \o HistoryParts(Tail(entries))

\* BaseAgent._build_prompt; context is None or a text
\* (mutant: the prompt carries the number of the call)
build_prompt_Numbered(system_prompt, history, user_input, ctx) ==
    system_prompt \o <<"call", Len(calls) + 1>>
    \o (IF ctx # None /\ ctx # <<>>
        THEN <<"## Relevant Context:">> \o ctx ELSE <<>>)
    \o <<"## Current Task:">> \o user_input
build_prompt(system_prompt, history, user_input, ctx) ==
    system_prompt
    \o (IF ctx # None /\ ctx # <<>>
        THEN <<"## Relevant Context:">> \o ctx ELSE <<>>)
    \o (IF history # <<>>
        THEN <<"## Conversation History:">>
                \o HistoryParts(LastEntries(history, HistoryWindow))
        ELSE <<>>)
    \o <<"## Current Task:">> \o user_input

\* BaseAgent._add_to_history
add_to_history(history, role, content) ==
    Append(history, [role |-> role, content |-> content])

\* BaseAgent.clear_history
clear_history(history) == <<>>

\* PlannerAgent.run after llm.invoke answered: the exchange is remembered
PlannerRemembers(history, task, response) ==
    add_to_history(add_to_history(history, "user", task), "assistant", response)

\* the record of one call of PlannerAgent.run
PlannerCall(ctx, ok) ==
    [agent |-> "planner", method |-> "run", context |-> ctx, iteration |-> 0,
     ok |-> ok, op |-> op, history |-> planner_history,
     prompt |-> build_prompt(PLANNER_SYSTEM_PROMPT, planner_history, Task, ctx)]

CoderCalls == SelectSeq(calls, LAMBDA c : c.agent = "coder")
ReviewerCalls == SelectSeq(calls, LAMBDA c : c.agent = "reviewer")
PlannerCalls == SelectSeq(calls, LAMBDA c : c.agent = "planner")

(***************************************************************************)
(* CodingOrchestrator: construction                                        *)
(***************************************************************************)
InitOrchestrator ==
    /\ max_iterations \in 0..MaxIter
    /\ use_rag \in BOOLEAN
    /\ op = "none"
    /\ pc = "idle"
    /\ existing_code = <<>>
    /\ context = <<>>
    /\ result = NoResult
    /\ current_code = <<>>
    /\ iteration = 0
    /\ calls = <<>>
    /\ kb_calls = <<>>
    /\ retval = NoValue
    /\ planner_history = <<>>
    /\ operations = 0

IdleOrchestrator ==
    /\ max_iterations = 0
    /\ use_rag = FALSE
    /\ op = "none"
    /\ pc = "off"
    /\ existing_code = <<>>
    /\ context = <<>>
    /\ result = NoResult
    /\ current_code = <<>>
    /\ iteration = 0
    /\ calls = <<>>
    /\ kb_calls = <<>>
    /\ retval = NoValue
    /\ planner_history = <<>>
    /\ operations = 0

InitApproval ==
    /\ review_in = <<>>
    /\ verdict = "none"

\* HierarchicalReasoner.__init__ (and the reasoner while it is not in use)
IdleReasoner ==
    /\ r_pc = "idle"
    /\ node_counter = 0
    /\ all_nodes = <<>>
    /\ strategic_nodes = <<>>
    /\ tactical_nodes = <<>>
    /\ best_strategic = 0
    /\ op_index = 0
    /\ reasoning_path = <<>>
    /\ model_calls = <<>>
    /\ trace = [kind |-> "none"]
    /\ reason_calls = 0

\* EnhancedOrchestrator while it is not in use
IdleEnhanced ==
    /\ mode = "standard"
    /\ e_pc = "off"
    /\ auto_save = TRUE
    /\ auto_execute = TRUE
    /\ e_max_iterations = 0
    /\ full_context = <<>>
    /\ e_result = NoResult
    /\ e_iteration = 0
    /\ disk = <<>>
    /\ writes = <<>>
    /\ e_calls = <<>>
    /\ e_retval = NoValue

(***************************************************************************)
(* CodingOrchestrator.run                                                  *)
(***************************************************************************)
\* run() is entered: result = TaskResult(task, PENDING)
RunBegin ==
    /\ pc = "idle"
    /\ op' = "run"
    /\ \E ec \in {<<>>, <<"existing code">>} : existing_code' = ec
    /\ result' = NewTaskResult
    /\ pc' = "context"
    /\ operations' = operations + 1
    /\ UNCHANGED <<max_iterations, use_rag, context, current_code, iteration,
                   calls, kb_calls, retval, planner_history, nonCoVars>>

\* plan_only() and quick_code() are entered
HelperBegin ==
    /\ pc = "idle"
    /\ \E o \in {"plan_only", "quick_code"} : op' = o
    /\ pc' = "context"
    /\ operations' = operations + 1
    /\ UNCHANGED <<max_iterations, use_rag, existing_code, context, result,
                   current_code, iteration, calls, kb_calls, retval,
                   planner_history, nonCoVars>>

\* _get_rag_context(task), and what its three callers do with the answer
\* (run: lines 113-120).  The lookup is not guarded: when the knowledge base
\* raises, the exception leaves the operation.
GetRagContext ==
    /\ pc = "context"
    /\ \/ \* no knowledge base: ""
          /\ ~use_rag
          /\ context' = IF op = "run" /\ existing_code # <<>>
                        THEN <<"## Existing Code:">> \o existing_code
                        ELSE <<>>
          /\ pc' = IF op = "run" THEN "planning" ELSE "helper_call"
          /\ result' = IF op = "run"
                       THEN [result EXCEPT !.status = "planning"]
                       ELSE result
          /\ UNCHANGED kb_calls
       \/ \* the lookup answers
          /\ use_rag
          /\ \E rag \in RagContexts :
                context' = IF op = "run" /\ existing_code # <<>>
                           THEN rag \o <<"## Existing Code:">> \o existing_code
                           ELSE rag
          /\ pc' = IF op = "run" THEN "planning" ELSE "helper_call"
          /\ result' = IF op = "run"
                       THEN [result EXCEPT !.status = "planning"]
                       ELSE result
          /\ kb_calls' = Append(kb_calls, [method |-> "get_context_for_task",
                                           ok |-> TRUE])
       \/ \* knowledge_base.get_context_for_task raises
          /\ use_rag
          /\ kb_calls' = Append(kb_calls, [method |-> "get_context_for_task",
                                           ok |-> FALSE])
          /\ pc' = "raised"
          /\ UNCHANGED <<context, result>>
    /\ UNCHANGED <<max_iterations, use_rag, op, existing_code, current_code,
                   iteration, calls, retval, planner_history,
                   operations, nonCoVars>>

\* the except branches of run (lines 131-134, 168-171, 189-192):
\* result.status = FAILED; return result
\* (mutants: the handler forgets the status; the handler loses the history)
OnAgentFailure_NoStatus(res) == res
OnAgentFailure_DropHistory(res) ==
    [res EXCEPT !.status = "failed", !.history = <<>>]
OnAgentFailure(res) == [res EXCEPT !.status = "failed"]

\* Phase 1 (lines 122-134): the single planning call
RunPlan ==
    /\ pc = "planning"
    /\ LET call == PlannerCall(OrNone(context), TRUE)
       IN  \/ \E plan \in PlanTexts :
                 /\ calls' = Append(calls, call)
                 /\ planner_history' =
                       PlannerRemembers(planner_history, Task, plan)
                 /\ result' = [result EXCEPT
                       !.plan = plan,
                       !.history = Append(@, IterationRecord("planning", 0, plan))]
                 /\ pc' = "loop"
                 /\ UNCHANGED retval
           \/ \* planner.run raises
              /\ calls' = Append(calls, [call EXCEPT !.ok = FALSE])
              /\ result' = OnAgentFailure(result)
              /\ pc' = "returned"
              /\ retval' = [kind |-> "result", value |-> result']
              /\ UNCHANGED planner_history
    /\ UNCHANGED <<max_iterations, use_rag, op, existing_code, context,
                   current_code, iteration, kb_calls, operations, nonCoVars>>

\* range(1, self.max_iterations + 1) has a next element after `it`
\* (mutant: one iteration too many)
LoopContinues_OffByOne(it, max) == it <= max
LoopContinues(it, max) == it < max

\* for iteration in range(1, self.max_iterations + 1)  (lines 139-145)
RunLoopHead ==
    /\ pc = "loop"
    /\ IF LoopContinues(iteration, max_iterations)
       THEN /\ iteration' = iteration + 1
            /\ result' = [result EXCEPT !.iterations = iteration + 1,
                                        !.status = "coding"]
            /\ pc' = "coding"
       ELSE /\ pc' = "finish"
            /\ UNCHANGED <<iteration, result>>
    /\ UNCHANGED <<max_iterations, use_rag, op, existing_code, context,
                   current_code, calls, kb_calls, retval, planner_history,
                   operations, nonCoVars>>

\* lines 148-159: the coder call of an iteration, with its arguments
\* (mutant: every iteration implements the plan anew)
CoderCall_AlwaysImplements(it, plan, existing, code, review) ==
    [agent |-> "coder", method |-> "implement_plan", plan |-> plan,
     context |-> OrNone(existing), iteration |-> it, ok |-> TRUE]
CoderCall(it, plan, existing, code, review) ==
    IF it = 1
    THEN [agent |-> "coder", method |-> "implement_plan", plan |-> plan,
          context |-> OrNone(existing), iteration |-> it, ok |-> TRUE]
    ELSE [agent |-> "coder", method |-> "fix_code", code |-> code,
          issues |-> review, iteration |-> it, ok |-> TRUE]

\* Phase 2 (lines 147-175): implement_plan on the first iteration, fix_code after
RunCode ==
    /\ pc = "coding"
    /\ LET call == CoderCall(iteration, result.plan, existing_code,
                             current_code, result.review)
       IN  \/ \E code \in CodeTexts(iteration) :
                 /\ calls' = Append(calls, call)
                 /\ current_code' = code
                 /\ result' = [result EXCEPT
                       !.code = code,
                       !.history = Append(@, IterationRecord("coding", iteration, code)),
                       !.status = "reviewing"]
                 /\ pc' = "reviewing"
                 /\ UNCHANGED retval
           \/ \* the coder raises
              /\ calls' = Append(calls, [call EXCEPT !.ok = FALSE])
              /\ result' = OnAgentFailure(result)
              /\ pc' = "returned"
              /\ retval' = [kind |-> "result", value |-> result']
              /\ UNCHANGED current_code
    /\ UNCHANGED <<max_iterations, use_rag, op, existing_code, context,
                   iteration, kb_calls, planner_history,
                   operations, nonCoVars>>

\* lines 195-201: approved -> COMPLETED and break; otherwise FIXING and loop
StatusAfterReview(approved) == IF approved THEN "completed" ELSE "fixing"
\* (mutant: the break is missing)
PcAfterReview_NoBreak(approved) == "loop"
PcAfterReview(approved) == IF approved THEN "finish" ELSE "loop"

\* Phase 3 and the approval check (lines 177-201)
RunReview ==
    /\ pc = "reviewing"
    /\ LET call == [agent |-> "reviewer", method |-> "check_implementation",
                    code |-> current_code, plan |-> result.plan,
                    iteration |-> iteration, ok |-> TRUE]
       IN  \/ \E review \in ReviewTexts :
                 /\ calls' = Append(calls, call)
                 /\ result' = [result EXCEPT
                       !.review = review,
                       !.history = Append(@, IterationRecord("reviewing", iteration, review)),
                       !.status = StatusAfterReview(is_approved(review))]
                 /\ pc' = PcAfterReview(is_approved(review))
                 /\ UNCHANGED retval
           \/ \* the reviewer raises
              /\ calls' = Append(calls, [call EXCEPT !.ok = FALSE])
              /\ result' = OnAgentFailure(result)
              /\ pc' = "returned"
              /\ retval' = [kind |-> "result", value |-> result']
    /\ UNCHANGED <<max_iterations, use_rag, op, existing_code, context,
                   current_code, iteration, kb_calls, planner_history,
                   operations, nonCoVars>>

\* lines 204-206: a run that was not approved is COMPLETED all the same
StatusAfterLoop(status) == IF status # "completed" THEN "completed" ELSE status

\* after the loop (lines 203-206)
RunFinish ==
    /\ pc = "finish"
    /\ result' = [result EXCEPT !.status = StatusAfterLoop(@)]
    /\ pc' = "store"
    /\ UNCHANGED <<max_iterations, use_rag, op, existing_code, context,
                   current_code, iteration, calls, kb_calls, retval, planner_history,
                   operations, nonCoVars>>

\* lines 208-220: the knowledge-store write, then return.  The write is not
\* guarded: when add_code raises, the exception leaves run().
RunStore ==
    /\ pc = "store"
    /\ \/ \* nothing to store
          /\ ~(use_rag /\ result.code # <<>>)
          /\ pc' = "returned"
          /\ retval' = [kind |-> "result", value |-> result]
          /\ UNCHANGED kb_calls
       \/ \* add_code answers
          /\ use_rag /\ result.code # <<>>
          /\ kb_calls' = Append(kb_calls, [method |-> "add_code", ok |-> TRUE])
          /\ pc' = "returned"
          /\ retval' = [kind |-> "result", value |-> result]
       \/ \* knowledge_base.add_code raises
          /\ use_rag /\ result.code # <<>>
          /\ kb_calls' = Append(kb_calls, [method |-> "add_code", ok |-> FALSE])
          /\ pc' = "raised"
          /\ UNCHANGED retval
    /\ UNCHANGED <<max_iterations, use_rag, op, existing_code, context, result,
                   current_code, iteration, calls, planner_history,
                   operations, nonCoVars>>

\* plan_only (line 260) and quick_code (line 234): the one agent call
HelperCall ==
    /\ pc = "helper_call"
    /\ LET call == IF op = "plan_only"
                   THEN PlannerCall(OrNone(context), TRUE)
                   ELSE [agent |-> "coder", method |-> "run",
                         context |-> OrNone(context), iteration |-> 0,
                         ok |-> TRUE]
       IN  \/ /\ calls' = Append(calls, call)
              /\ \E out \in (IF op = "plan_only" THEN PlanTexts
                             ELSE CodeTexts(1)) :
                     /\ retval' = [kind |-> "text", value |-> out]
                     /\ planner_history' =
                           IF op = "plan_only"
                           THEN PlannerRemembers(planner_history, Task, out)
                           ELSE planner_history
              /\ pc' = "returned"
           \/ \* the agent raises
              /\ calls' = Append(calls, [call EXCEPT !.ok = FALSE])
              /\ pc' = "raised"
              /\ UNCHANGED <<retval, planner_history>>
    /\ UNCHANGED <<max_iterations, use_rag, op, existing_code, context, result,
                   current_code, iteration, kb_calls, operations, nonCoVars>>

Init == InitOrchestrator /\ InitApproval /\ IdleReasoner /\ IdleEnhanced

Next ==
    \/ RunBegin
    \/ HelperBegin
    \/ GetRagContext
    \/ RunPlan
    \/ RunLoopHead
    \/ RunCode
    \/ RunReview
    \/ RunFinish
    \/ RunStore
    \/ HelperCall

Spec == Init /\ [][Next]_vars

(***************************************************************************)
(* A session (specification SpecSession): one orchestrator object serves   *)
(* an operation and then further plan_only(task) calls, with               *)
(* clear_agent_history() possibly called in between, so that the planner's *)
(* conversation history and the logs carry over from one call to the next. *)
(***************************************************************************)
MaxOps == 3
MaxSessionIter == 1

\* an operation has ended and the caller goes on: the locals of the ended
\* call are gone, the TaskResult it returned stays with the caller
CallAgain ==
    /\ pc \in {"returned", "raised"}
    /\ operations < MaxOps
    /\ pc' = "again"
    /\ existing_code' = <<>>
    /\ context' = <<>>
    /\ current_code' = <<>>
    /\ iteration' = 0
    /\ retval' = NoValue
    /\ UNCHANGED <<max_iterations, use_rag, op, result, calls, kb_calls,
                   planner_history, operations, nonCoVars>>

\* clear_agent_history(), called between two operations
ClearAgentHistory ==
    /\ pc = "again"
    /\ planner_history # <<>>
    /\ planner_history' = clear_history(planner_history)
    /\ UNCHANGED <<max_iterations, use_rag, op, pc, existing_code, context,
                   result, current_code, iteration, calls, kb_calls, retval,
                   operations, nonCoVars>>

\* plan_only(task) is entered on the orchestrator that served before
PlanOnlyAgain ==
    /\ pc = "again"
    /\ op' = "plan_only"
    /\ pc' = "context"
    /\ operations' = operations + 1
    /\ UNCHANGED <<max_iterations, use_rag, existing_code, context, result,
                   current_code, iteration, calls, kb_calls, retval,
                   planner_history, nonCoVars>>

InitSession ==
    /\ Init
    /\ max_iterations <= MaxSessionIter

NextSession ==
    \/ Next
    \/ CallAgain
    \/ ClearAgentHistory
    \/ PlanOnlyAgain

SpecSession == InitSession /\ [][NextSession]_vars

(***************************************************************************)
(* ReviewerAgent.is_approved applied to every review text of up to         *)
(* MaxReviewLen tokens (specification SpecApproval)                        *)
(***************************************************************************)
RECURSIVE TextsUpTo(_)
TextsUpTo(n) ==
    IF n = 0 THEN {<<>>}
    ELSE LET shorter == TextsUpTo(n - 1)
         IN  shorter \cup {Append(t, tok) : t \in shorter, tok \in Tokens}

InitReview ==
    /\ review_in \in TextsUpTo(MaxReviewLen)
    /\ verdict = "none"

\* the reviewer's verdict on review_in
Classify ==
    /\ verdict = "none"
    /\ verdict' = IF is_approved(review_in) THEN "approved" ELSE "not approved"
    /\ UNCHANGED <<review_in, coVars, reVars, enVars>>

InitClassifier ==
    IdleOrchestrator /\ InitReview /\ IdleReasoner /\ IdleEnhanced

NextClassifier == Classify

SpecApproval == InitClassifier /\ [][NextClassifier]_vars

(***************************************************************************)
(* HierarchicalReasoner (specification SpecReason).                        *)
(* A model response is a text with an identity (id), the position of its   *)
(* first "{" (start, -1 when there is none), the position after its last   *)
(* "}" (end, 0 when there is none) and what json.loads makes of the text   *)
(* between the two: a dict (a function from keys to values), or an error.  *)
(* Confidences are counted in tenths: 5 is 0.5.                            *)
(***************************************************************************)
MaxList == 2

FallbackConfidence == 5
DefaultConfidence == 7

EmptyDict == <<>>

\* dict.get(key, default)
Get(d, key, default) == IF key \in DOMAIN d THEN d[key] ELSE default

\* texts that json.loads cannot be given, or rejects
MalformedResponses(id) == {
    [id |-> id, start |-> -1, end |-> 0, valid |-> FALSE, json |-> EmptyDict],
    [id |-> id, start |-> 3, end |-> 1, valid |-> FALSE, json |-> EmptyDict],
    [id |-> id, start |-> 0, end |-> 9, valid |-> FALSE, json |-> EmptyDict]}

JsonResponse(id, dict) ==
    [id |-> id, start |-> 4, end |-> 9, valid |-> TRUE, json |-> dict]

RECURSIVE ListsUpTo(_, _)
ListsUpTo(S, n) ==
    IF n = 0 THEN {<<>>}
    ELSE LET shorter == ListsUpTo(S, n - 1)
         IN  shorter \cup {Append(l, x) : l \in shorter, x \in S}

\* an element of a JSON list: a dict, or a string
DictItem(d) == [isdict |-> TRUE, dict |-> d]
TextItem(t) == [isdict |-> FALSE, text |-> t]

ApproachItems == {
    DictItem([description |-> "approach"]),
    DictItem([description |-> "approach", confidence |-> 9]),
    DictItem([description |-> "approach", confidence |-> 12]),
    TextItem("approach")}

SubProblemItems == {
    DictItem([description |-> "sub-problem"]),
    TextItem("sub-problem")}

StrategicResponses ==
    MalformedResponses("strategic text")
    \cup {JsonResponse("strategic json", [problem_understanding |-> "p"])}
    \cup {JsonResponse("strategic json", [approaches |-> l]) :
             l \in ListsUpTo(ApproachItems, MaxList)}

TacticalResponses ==
    MalformedResponses("tactical text")
    \cup {JsonResponse("tactical json", [risks |-> "r"])}
    \cup {JsonResponse("tactical json", [sub_problems |-> l]) :
             l \in ListsUpTo(SubProblemItems, MaxList)}
    \cup {JsonResponse("tactical json", [sub_problems |-> l, confidence |-> 8]) :
             l \in ListsUpTo(SubProblemItems, MaxList)}

OperationalResponses ==
    {r \in MalformedResponses("operational text") : r.start # 3}
    \cup {JsonResponse("operational json", EmptyDict),
          JsonResponse("operational json",
                       [implementation |-> "i", confidence |-> 6])}

ReflectiveResponses ==
    MalformedResponses("reflective text")
    \cup {JsonResponse("reflective json", EmptyDict),
          JsonResponse("reflective json",
                       [evaluation |-> "e", overall_confidence |-> 9,
                        recommendation |-> "revise"]),
          JsonResponse("reflective json",
                       [evaluation |-> "e", overall_confidence |-> -1])}

\* _parse_json_response: the dict between the first "{" and the last "}",
\* or the fallback dict
(* mutant: the fallback dict loses the raw text and the neutral confidence *)
parse_json_response_NoFallback(response) ==
    IF response.start # -1 /\ response.end > response.start /\ response.valid
    THEN response.json
    ELSE EmptyDict
parse_json_response(response) ==
    IF response.start # -1 /\ response.end > response.start /\ response.valid
    THEN response.json
    ELSE [raw_response |-> response.id, confidence |-> FallbackConfidence]

\* json.dumps(d) and a plain text, as a node's thought
Dumps(d) == [kind |-> "json", dict |-> d]
Text(t) == [kind |-> "text", text |-> t]

\* json.dumps(x) if isinstance(x, dict) else str(x)
ItemThought(item) == IF item.isdict THEN Dumps(item.dict) ELSE Text(item.text)

\* json.dumps(parsed) if parsed else response
ParsedThought(parsed, response) ==
    IF DOMAIN parsed # {} THEN Dumps(parsed) ELSE Text(response.id)

ReasoningNode(id, level, thought, confidence, parent_id, evaluation) ==
    [id |-> id, level |-> level, thought |-> thought,
     confidence |-> confidence, children |-> <<>>, parent_id |-> parent_id,
     selected |-> FALSE, evaluation |-> evaluation]

\* positions Len(all_nodes) + 1 .. Len(all_nodes) + n
NewPositions(n) == [i \in 1..n |-> Len(all_nodes) + i]
Range(f) == {f[i] : i \in DOMAIN f}

\* max(nodes, key=lambda n: n.confidence): the first node of largest confidence
(* mutant: the last node of largest confidence *)
select_best_path_Last(ns) ==
    LET i == CHOOSE i \in DOMAIN ns :
                /\ \A j \in DOMAIN ns :
                      all_nodes[ns[j]].confidence <= all_nodes[ns[i]].confidence
                /\ \A j \in (i + 1)..Len(ns) :
                      all_nodes[ns[j]].confidence < all_nodes[ns[i]].confidence
    IN  ns[i]
select_best_path(ns) ==
    LET i == CHOOSE i \in DOMAIN ns :
                /\ \A j \in DOMAIN ns :
                      all_nodes[ns[j]].confidence <= all_nodes[ns[i]].confidence
                /\ \A j \in 1..(i - 1) :
                      all_nodes[ns[j]].confidence < all_nodes[ns[i]].confidence
    IN  ns[i]

\* line 322: self.node_counter = 0
\* (mutant: the counter runs on from the previous call)
ResetCounter_Keeps(counter) == counter
ResetCounter(counter) == 0

\* reason() is entered (lines 322-324)
ReasonBegin ==
    /\ r_pc = "idle"
    /\ node_counter' = ResetCounter(node_counter)
    /\ all_nodes' = <<>>
    /\ reasoning_path' = <<>>
    /\ r_pc' = "strategic"
    /\ reason_calls' = reason_calls + 1
    /\ UNCHANGED <<strategic_nodes, tactical_nodes, best_strategic, op_index,
                   model_calls, trace, nonReVars>>

\* _generate_strategic_nodes (lines 229-247) and all_nodes.extend (line 335)
GenerateStrategic ==
    /\ r_pc = "strategic"
    /\ \E response \in StrategicResponses :
          LET parsed == parse_json_response(response)
              approaches ==
                  Get(parsed, "approaches",
                      <<DictItem([description |-> response.id,
                                  confidence |-> DefaultConfidence])>>)
              nodes == [i \in 1..Len(approaches) |->
                          ReasoningNode(
                              node_counter + i, "strategic",
                              ItemThought(approaches[i]),
                              IF approaches[i].isdict
                              THEN Get(approaches[i].dict, "confidence",
                                       DefaultConfidence)
                              ELSE DefaultConfidence,
                              0, "")]
          IN  /\ all_nodes' = all_nodes \o nodes
              /\ strategic_nodes' = NewPositions(Len(nodes))
              /\ node_counter' = node_counter + Len(nodes)
              /\ model_calls' = Append(model_calls,
                    [level |-> "strategic", response |-> response,
                     created |-> Range(NewPositions(Len(nodes)))])
    /\ r_pc' = "select"
    /\ UNCHANGED <<tactical_nodes, best_strategic, op_index, reasoning_path,
                   trace, reason_calls,
                   nonReVars>>

\* lines 337-339: max() of no node raises ValueError
SelectBest ==
    /\ r_pc = "select"
    /\ IF strategic_nodes = <<>>
       THEN /\ r_pc' = "raised"
            /\ UNCHANGED <<best_strategic, all_nodes, reasoning_path>>
       ELSE LET best == select_best_path(strategic_nodes)
            IN  /\ best_strategic' = best
                /\ all_nodes' = [all_nodes EXCEPT ![best].selected = TRUE]
                /\ reasoning_path' =
                      Append(reasoning_path, <<"Strategic", all_nodes[best].thought>>)
                /\ r_pc' = "tactical"
    /\ UNCHANGED <<node_counter, strategic_nodes, tactical_nodes, op_index,
                   model_calls, trace, reason_calls,
                   nonReVars>>

\* _expand_tactical (lines 249-269) and all_nodes.extend (line 349)
ExpandTactical ==
    /\ r_pc = "tactical"
    /\ \E response \in TacticalResponses :
          LET parsed == parse_json_response(response)
              sub_problems ==
                  Get(parsed, "sub_problems",
                      <<DictItem([description |-> response.id])>>)
              nodes == [i \in 1..Len(sub_problems) |->
                          ReasoningNode(
                              node_counter + i, "tactical",
                              ItemThought(sub_problems[i]),
                              Get(parsed, "confidence", DefaultConfidence),
                              all_nodes[best_strategic].id, "")]
          IN  /\ all_nodes' =
                    [all_nodes EXCEPT ![best_strategic].children =
                                          NewPositions(Len(nodes))] \o nodes
              /\ tactical_nodes' = NewPositions(Len(nodes))
              /\ node_counter' = node_counter + Len(nodes)
              /\ model_calls' = Append(model_calls,
                    [level |-> "tactical", response |-> response,
                     created |-> Range(NewPositions(Len(nodes)))])
    /\ op_index' = 1
    /\ r_pc' = "operational"
    /\ UNCHANGED <<strategic_nodes, best_strategic, reasoning_path, trace,
                   reason_calls,
                   nonReVars>>

\* one turn of the loop of lines 353-364: _expand_operational (lines 271-291)
ExpandOperational ==
    /\ r_pc = "operational"
    /\ op_index <= Len(tactical_nodes)
    /\ \E response \in OperationalResponses :
          LET parsed == parse_json_response(response)
              tactical == tactical_nodes[op_index]
              node == ReasoningNode(
                          node_counter + 1, "operational",
                          ParsedThought(parsed, response),
                          Get(parsed, "confidence", DefaultConfidence),
                          all_nodes[tactical].id, "")
          IN  /\ all_nodes' =
                    Append([all_nodes EXCEPT ![tactical].children =
                                                 NewPositions(1)], node)
              /\ node_counter' = node_counter + 1
              /\ model_calls' = Append(model_calls,
                    [level |-> "operational", response |-> response,
                     created |-> Range(NewPositions(1))])
    /\ op_index' = op_index + 1
    /\ UNCHANGED <<r_pc, strategic_nodes, tactical_nodes, best_strategic,
                   reasoning_path, trace, reason_calls,
                   nonReVars>>

\* lines 375-381: _reflect (lines 293-305) on the selected and parented nodes
Reflect ==
    /\ r_pc = "operational"
    /\ op_index > Len(tactical_nodes)
    /\ \E response \in ReflectiveResponses :
          LET parsed == parse_json_response(response)
              node == ReasoningNode(
                          node_counter + 1, "reflective",
                          ParsedThought(parsed, response),
                          Get(parsed, "overall_confidence", DefaultConfidence),
                          0, Get(parsed, "recommendation", "proceed"))
          IN  /\ all_nodes' = Append(all_nodes, node)
              /\ node_counter' = node_counter + 1
              /\ model_calls' = Append(model_calls,
                    [level |-> "reflective", response |-> response,
                     created |-> Range(NewPositions(1))])
    /\ r_pc' = "compile"
    /\ UNCHANGED <<strategic_nodes, tactical_nodes, best_strategic, op_index,
                   reasoning_path, trace, reason_calls,
                   nonReVars>>

\* _compile_final_answer (lines 407-439): one part for each operational node,
\* and the notes when the reflective thought is JSON; it never raises
compile_final_answer ==
    LET ops == SelectSeq([i \in DOMAIN all_nodes |-> i],
                         LAMBDA i : all_nodes[i].level = "operational")
        part(i) ==
            IF /\ all_nodes[i].thought.kind = "json"
               /\ "implementation" \in DOMAIN all_nodes[i].thought.dict
            THEN <<"implementation", i>>
            ELSE <<"thought", i>>
        notes == \E i \in DOMAIN all_nodes :
                    /\ all_nodes[i].level = "reflective"
                    /\ all_nodes[i].thought.kind = "json"
    IN  [parts |-> [k \in DOMAIN ops |-> part(ops[k])], notes |-> notes]

\* lines 388-405: the ReasoningTrace is built and returned
Compile ==
    /\ r_pc = "compile"
    /\ trace' = [kind |-> "trace",
                 root_nodes |-> strategic_nodes,
                 final_answer |-> compile_final_answer,
                 reasoning_path |-> reasoning_path,
                 total_nodes_explored |-> Len(all_nodes),
                 selected_path |->
                     SelectSeq([i \in DOMAIN all_nodes |-> all_nodes[i].id],
                               LAMBDA id : \E i \in DOMAIN all_nodes :
                                   all_nodes[i].id = id /\ all_nodes[i].selected)]
    /\ r_pc' = "returned"
    /\ UNCHANGED <<node_counter, all_nodes, strategic_nodes, tactical_nodes,
                   best_strategic, op_index, reasoning_path, model_calls,
                   reason_calls,
                   nonReVars>>

InitReason ==
    IdleOrchestrator /\ InitApproval /\ IdleReasoner /\ IdleEnhanced

NextReason ==
    \/ ReasonBegin
    \/ GenerateStrategic
    \/ SelectBest
    \/ ExpandTactical
    \/ ExpandOperational
    \/ Reflect
    \/ Compile

SpecReason == InitReason /\ [][NextReason]_vars

(***************************************************************************)
(* The same reasoner serves several reason() calls (specification          *)
(* SpecReasonAgain): self.node_counter is a field of the reasoner and      *)
(* outlives a call; everything else reason() works on is local to the call.*)
(***************************************************************************)
MaxReasonCalls == 2

\* reason() has ended and is about to be called again on the same reasoner
ReasonAgain ==
    /\ r_pc \in {"returned", "raised"}
    /\ reason_calls < MaxReasonCalls
    /\ r_pc' = "idle"
    /\ all_nodes' = <<>>
    /\ strategic_nodes' = <<>>
    /\ tactical_nodes' = <<>>
    /\ best_strategic' = 0
    /\ op_index' = 0
    /\ reasoning_path' = <<>>
    /\ model_calls' = <<>>
    /\ trace' = [kind |-> "none"]
    /\ UNCHANGED <<node_counter, reason_calls, nonReVars>>

InitReasonAgain == InitReason

NextReasonAgain ==
    \/ NextReason
    \/ ReasonAgain

SpecReasonAgain == InitReasonAgain /\ [][NextReasonAgain]_vars

(***************************************************************************)
(* EnhancedOrchestrator (specification SpecEnhanced).                      *)
(* A path string is a record: whether it starts with "/", its components   *)
(* and whether it carries surrounding white space.  A location is the     *)
(* sequence of the components of an absolute path without "." and "..".    *)
(* The code text of the coder is the sequence of its file blocks; a block  *)
(* has the style of its header (1..5, the pattern that matches it), the    *)
(* path string of the header and the content between the fences.           *)
(***************************************************************************)
MaxFix == 2

AgentMode == {"standard", "hierarchical", "autonomous", "research"}

\* AgentCapabilities(): the defaults
capabilities ==
    [file_system |-> TRUE, web_search |-> TRUE, terminal |-> TRUE, rag |-> TRUE]

\* self.workspace_dir, resolved
workspace_dir == <<"ws">>

\* FileSystemTools(sandbox_mode = self.mode != AgentMode.AUTONOMOUS)
sandbox_mode == mode # "autonomous"

PathStr(abs, comps, pad) == [abs |-> abs, comps |-> comps, pad |-> pad]

\* file_path.strip()
PathStrip(p) == [p EXCEPT !.pad = FALSE]

\* the location a sequence of components leads to from a location
RECURSIVE Resolve(_, _)
Resolve(base, comps) ==
    IF comps = <<>> THEN base
    ELSE LET c == Head(comps)
             next == IF c = "." THEN base
                     ELSE IF c = ".."
                          THEN SubSeq(base, 1, Len(base) - 1)
                          ELSE Append(base, c)
         IN  Resolve(next, Tail(comps))

\* resolved.relative_to(root) does not raise
IsRelativeTo(location, root) ==
    /\ Len(root) <= Len(location)
    /\ SubSeq(location, 1, Len(root)) = root

\* FileSystemTools._validate_path
validate_path(location, sandbox) ==
    [ok |-> ~sandbox \/ IsRelativeTo(location, workspace_dir),
     resolved |-> location]

\* lines 765-769: the file a path string is written to
FullPath(file_path) ==
    IF ~file_path.abs
    THEN Resolve(workspace_dir, file_path.comps)
    ELSE Resolve(<<>>, file_path.comps)

Block(style, path, content) ==
    [style |-> style, path |-> path, content |-> content]

\* what the coder model may answer
CodeDocs == {
    <<>>,
    <<Block(1, PathStr(FALSE, <<"main.py">>, FALSE), <<"print(1)">>)>>,
    <<Block(2, PathStr(FALSE, <<"a", "b.py">>, FALSE), <<"second">>),
      Block(1, PathStr(FALSE, <<".", "a", "b.py">>, TRUE), <<" ", "first", " ">>)>>,
    <<Block(3, PathStr(FALSE, <<"index.html">>, FALSE), <<"<html>">>),
      Block(1, PathStr(FALSE, <<"index.html">>, TRUE), <<"<body>">>)>>,
    <<Block(1, PathStr(FALSE, <<"..", "evil.py">>, FALSE), <<"evil">>),
      Block(4, PathStr(TRUE, <<"etc", "cron.py">>, FALSE), <<"cron">>)>>}

\* what the reviewer model may answer to check_implementation
CheckTexts == {
    <<"## Review Summary", "APPROVED", "## Critical Issues", "None identified">>,
    <<"## Review Summary", "NEEDS_CHANGES", "## Critical Issues",
      "Off-by-one error in loop bound">>}

\* what knowledge_base.get_context_for_task may do: raise, or return a text
Lookups ==
    {[raised |-> TRUE, text |-> <<>>]}
        \cup {[raised |-> FALSE, text |-> t] : t \in RagContexts}

\* what research_topic may find
ResearchSources == {<<>>, <<"https://example.org/howto">>}

\* re.findall of the five patterns in turn (lines 748-751)
Matches(code) ==
    LET Of(s) == SelectSeq(code, LAMBDA b : b.style = s)
    IN  Of(1) \o Of(2) \o Of(3) \o Of(4) \o Of(5)

InSeq(x, s) == \E i \in DOMAIN s : s[i] = x

\* Path.write_text
write_text(d, location, content) ==
    [l \in DOMAIN d \cup {location} |->
        IF l = location THEN content ELSE d[l]]

\* the match the loop goes on with after match i of n, whose mkdir or
\* write_text raised or not: the try/except is inside the loop (lines 763-776)
\* (mutant: the exception leaves the loop)
NextMatch_AbortOnFailure(i, n, raised) == IF raised THEN n + 1 ELSE i + 1
NextMatch(i, n, raised) == i + 1

\* the loop body of _extract_and_save_files (lines 752-774) from match i on;
\* fails: the matches whose mkdir or write_text raises
RECURSIVE SaveMatches(_, _, _, _)
SaveMatches(matches, i, fails, st) ==
    IF i > Len(matches) THEN st
    ELSE LET file_path == PathStrip(matches[i].path)
             content == Strip(matches[i].content)
             full_path == FullPath(file_path)
             attempt(ok) == [file_path |-> file_path, full_path |-> full_path,
                             content |-> content, ok |-> ok]
             next ==
                 IF InSeq(file_path, st.files_created) THEN st
                 ELSE IF i \in fails
                      THEN [st EXCEPT !.writes = Append(@, attempt(FALSE))]
                      ELSE [files_created |-> Append(st.files_created, file_path),
                            disk |-> write_text(st.disk, full_path, content),
                            writes |-> Append(st.writes, attempt(TRUE))]
             raised == ~InSeq(file_path, st.files_created) /\ i \in fails
         IN  SaveMatches(matches, NextMatch(i, Len(matches), raised), fails,
                         next)

\* EnhancedOrchestrator._extract_and_save_files
extract_and_save_files(code, fails, d) ==
    SaveMatches(Matches(code), 1, fails,
                [files_created |-> <<>>, disk |-> d, writes |-> <<>>])

\* the methods TerminalTools defines (src/tools/terminal.py)
TerminalMethods == {
    "run_command", "run_python", "run_python_code", "run_npm", "run_git",
    "pip_install", "npm_install", "check_command_exists", "get_python_version",
    "get_node_version", "get_npm_version", "list_processes", "kill_process",
    "get_environment", "set_environment", "run_background"}

EntryNames == {"main.py", "app.py", "index.py", "run.py"}

\* the text after the last "." of a file name
Suffix(name) ==
    CASE name \in {"main.py", "b.py", "evil.py", "cron.py"} -> "py"
      [] name = "index.html" -> "html"
      [] name = "package.json" -> "json"
      [] OTHER -> ""

FileName(p) == p.comps[Len(p.comps)]
EndsWith(p, suffix) == Suffix(FileName(p)) = suffix

\* any(name in f_lower for name in [...]); the paths here are in lower case
HasEntryName(p) == FileName(p) \in EntryNames

\* lines 785-793: the entry point among the files (0: None)
MainFile(files) ==
    IF \E i \in DOMAIN files : HasEntryName(files[i])
    THEN CHOOSE i \in DOMAIN files :
            /\ HasEntryName(files[i])
            /\ \A j \in 1..(i - 1) : ~HasEntryName(files[j])
    ELSE IF \E i \in DOMAIN files : EndsWith(files[i], "py")
         THEN CHOOSE i \in DOMAIN files :
                 /\ EndsWith(files[i], "py")
                 /\ \A j \in 1..(i - 1) : ~EndsWith(files[j], "py")
         ELSE 0

\* self.terminal.execute(...): an attribute TerminalTools does not have
TerminalExecute ==
    IF "execute" \in TerminalMethods
    THEN [raised |-> FALSE, stdout |-> <<"stdout">>, stderr |-> <<>>]
    ELSE [raised |-> TRUE, stdout |-> <<>>,
          stderr |-> <<"'TerminalTools' object has no attribute 'execute'">>]

\* EnhancedOrchestrator._execute_generated_code
execute_generated_code(files) ==
    LET main_file == MainFile(files)
        runs == main_file # 0 /\ EndsWith(files[main_file], "py")
        ran == [output |-> IF runs THEN TerminalExecute.stdout ELSE <<>>,
                errors |-> IF runs THEN TerminalExecute.stderr ELSE <<>>]
        html_files == SelectSeq(files, LAMBDA f : EndsWith(f, "html"))
        html == IF html_files # <<>> /\ main_file = 0
                THEN [ran EXCEPT !.output = <<"Created HTML files">>]
                ELSE ran
    IN  IF files = <<>> THEN [output |-> <<>>, errors |-> <<>>]
        ELSE IF \E i \in DOMAIN files : FileName(files[i]) = "package.json"
             THEN [html EXCEPT !.output = Append(@, "Note: Run 'npm install'")]
             ELSE html

\* EnhancedTaskResult(task=task, status="pending")
NewEnhancedTaskResult ==
    [status |-> "pending", plan |-> <<>>, code |-> <<>>, review |-> <<>>,
     files_created |-> <<>>, files_modified |-> <<>>,
     research_sources |-> <<>>, execution_output |-> <<>>, errors |-> <<>>,
     iterations |-> 0]

\* EnhancedOrchestrator.__init__ in a fresh workspace
ConstructEnhanced ==
    /\ mode \in AgentMode
    /\ e_pc = "idle"
    /\ auto_save = TRUE
    /\ auto_execute = TRUE
    /\ e_max_iterations = 0
    /\ full_context = <<>>
    /\ e_result = NoResult
    /\ e_iteration = 0
    /\ disk = <<>>
    /\ writes = <<>>
    /\ e_calls = <<>>
    /\ e_retval = NoValue

\* an agent call of run() raised: nothing in run() catches it
EnRaise(agent) ==
    /\ e_calls' = Append(e_calls, [agent |-> agent, ok |-> FALSE])
    /\ e_pc' = "raised"
    /\ e_retval' = [kind |-> "raised"]

EnCalled(agent) == e_calls' = Append(e_calls, [agent |-> agent, ok |-> TRUE])

\* run() is entered (line 494)
EnBegin ==
    /\ e_pc = "idle"
    /\ auto_save' \in BOOLEAN
    /\ auto_execute' \in BOOLEAN
    /\ e_max_iterations' \in 0..MaxFix
    /\ e_result' = NewEnhancedTaskResult
    /\ e_pc' = "context"
    /\ UNCHANGED <<mode, full_context, e_iteration, disk, writes, e_calls,
                   e_retval, coVars, apVars, reVars>>

\* Step 1, lines 500-526: workspace structure, RAG context, research
EnGather ==
    /\ e_pc = "context"
    /\ \E lookup \in Lookups, sources \in ResearchSources :
          LET existing_files ==
                  IF capabilities.file_system
                     /\ validate_path(workspace_dir, sandbox_mode).ok
                  THEN <<"## Current Workspace Structure:">>
                  ELSE <<>>
              rag_context ==
                  IF capabilities.rag /\ ~lookup.raised /\ lookup.text # <<>>
                  THEN <<"## Relevant Code Context:">>
                  ELSE <<>>
              research ==
                  IF capabilities.web_search /\ sources # <<>>
                  THEN <<"## Research:">>
                  ELSE <<>>
          IN  /\ full_context' = existing_files \o rag_context \o research
              /\ e_result' =
                    IF capabilities.web_search /\ sources # <<>>
                    THEN [e_result EXCEPT !.research_sources = sources]
                    ELSE e_result
    /\ e_pc' = "planning"
    /\ UNCHANGED <<mode, auto_save, auto_execute, e_max_iterations,
                   e_iteration, disk, writes, e_calls, e_retval,
                   coVars, apVars, reVars>>

\* Step 2, lines 528-532: full_context is not read after the planning prompt
EnPlan ==
    /\ e_pc = "planning"
    /\ \/ /\ EnRaise("planner")
          /\ UNCHANGED e_result
       \/ /\ EnCalled("planner")
          /\ \E plan \in PlanTexts : e_result' = [e_result EXCEPT !.plan = plan]
          /\ e_pc' = "coding"
          /\ UNCHANGED e_retval
    /\ full_context' = <<>>
    /\ UNCHANGED <<mode, auto_save, auto_execute, e_max_iterations,
                   e_iteration, disk, writes, coVars, apVars, reVars>>

\* Step 3, lines 534-538
EnCode ==
    /\ e_pc = "coding"
    /\ \/ /\ EnRaise("coder")
          /\ UNCHANGED e_result
       \/ /\ EnCalled("coder")
          /\ \E code \in CodeDocs : e_result' = [e_result EXCEPT !.code = code]
          /\ e_pc' = "saving"
          /\ UNCHANGED e_retval
    /\ UNCHANGED <<mode, auto_save, auto_execute, e_max_iterations,
                   full_context, e_iteration, disk, writes,
                   coVars, apVars, reVars>>

\* Step 4, lines 540-547
EnSave ==
    /\ e_pc = "saving"
    /\ IF auto_save /\ capabilities.file_system
       THEN \E fails \in SUBSET (1..Len(e_result.code)) :
               LET saved == extract_and_save_files(e_result.code, fails, disk)
               IN  /\ e_result' =
                         [e_result EXCEPT !.files_created = saved.files_created]
                   /\ disk' = saved.disk
                   /\ writes' = saved.writes
       ELSE UNCHANGED <<e_result, disk, writes>>
    /\ e_pc' = "executing"
    /\ UNCHANGED <<mode, auto_save, auto_execute, e_max_iterations,
                   full_context, e_iteration, e_calls, e_retval,
                   coVars, apVars, reVars>>

\* Step 5, lines 549-558
EnExecute ==
    /\ e_pc = "executing"
    /\ IF auto_execute /\ capabilities.terminal /\ e_result.files_created # <<>>
       THEN LET exec_result == execute_generated_code(e_result.files_created)
            IN  e_result' =
                    [e_result EXCEPT
                        !.execution_output = exec_result.output,
                        !.errors = IF exec_result.errors # <<>>
                                   THEN Append(@, exec_result.errors)
                                   ELSE @]
       ELSE UNCHANGED e_result
    /\ e_pc' = "reviewing"
    /\ UNCHANGED <<mode, auto_save, auto_execute, e_max_iterations,
                   full_context, e_iteration, disk, writes, e_calls, e_retval,
                   coVars, apVars, reVars>>

\* Step 6, lines 560-571: the first review; iteration = 0
EnReview ==
    /\ e_pc = "reviewing"
    /\ \/ /\ EnRaise("reviewer")
          /\ UNCHANGED <<e_result, e_iteration>>
       \/ /\ EnCalled("reviewer")
          /\ \E review \in CheckTexts :
                e_result' = [e_result EXCEPT !.review = review]
          /\ e_iteration' = 0
          /\ e_pc' = "loop"
          /\ UNCHANGED e_retval
    /\ UNCHANGED <<mode, auto_save, auto_execute, e_max_iterations,
                   full_context, disk, writes, coVars, apVars, reVars>>

\* the condition of the while loop (line 572)
\* (mutant: the review's verdict is not looked at)
FixNeeded_IgnoresApproval(review, it, max) == it < max
FixNeeded(review, it, max) == ~is_approved(review) /\ it < max

\* Step 7, lines 572-575 and 600-605: the loop head, and the return
EnLoopHead ==
    /\ e_pc = "loop"
    /\ IF FixNeeded(e_result.review, e_iteration, e_max_iterations)
       THEN /\ e_iteration' = e_iteration + 1
            /\ e_result' = [e_result EXCEPT !.iterations = e_iteration + 1]
            /\ e_pc' = "fixing"
            /\ UNCHANGED e_retval
       ELSE /\ e_result' =
                  [e_result EXCEPT
                      !.status = IF e_result.errors = <<>>
                                 THEN "completed"
                                 ELSE "completed_with_errors"]
            /\ e_retval' = [kind |-> "result", value |-> e_result']
            /\ e_pc' = "returned"
            /\ UNCHANGED e_iteration
    /\ UNCHANGED <<mode, auto_save, auto_execute, e_max_iterations,
                   full_context, disk, writes, e_calls,
                   coVars, apVars, reVars>>

\* lines 577-579: the fix call
EnFix ==
    /\ e_pc = "fixing"
    /\ \/ /\ EnRaise("coder")
          /\ UNCHANGED e_result
       \/ /\ EnCalled("coder")
          /\ \E code \in CodeDocs : e_result' = [e_result EXCEPT !.code = code]
          /\ e_pc' = "resaving"
          /\ UNCHANGED e_retval
    /\ UNCHANGED <<mode, auto_save, auto_execute, e_max_iterations,
                   full_context, e_iteration, disk, writes,
                   coVars, apVars, reVars>>

\* lines 581-584: re-save
EnResave ==
    /\ e_pc = "resaving"
    /\ IF auto_save /\ capabilities.file_system
       THEN \E fails \in SUBSET (1..Len(e_result.code)) :
               LET saved == extract_and_save_files(e_result.code, fails, disk)
               IN  /\ e_result' =
                         [e_result EXCEPT
                             !.files_modified = @ \o saved.files_created]
                   /\ disk' = saved.disk
                   /\ writes' = saved.writes
       ELSE UNCHANGED <<e_result, disk, writes>>
    /\ e_pc' = "reexecuting"
    /\ UNCHANGED <<mode, auto_save, auto_execute, e_max_iterations,
                   full_context, e_iteration, e_calls, e_retval,
                   coVars, apVars, reVars>>

\* lines 586-593: re-execute
EnReexecute ==
    /\ e_pc = "reexecuting"
    /\ LET files == e_result.files_created \o e_result.files_modified
       IN  IF auto_execute /\ capabilities.terminal /\ files # <<>>
           THEN LET exec_result == execute_generated_code(files)
                IN  e_result' =
                        [e_result EXCEPT
                            !.execution_output = exec_result.output,
                            !.errors = IF exec_result.errors # <<>>
                                       THEN Append(@, exec_result.errors)
                                       ELSE <<>>]
           ELSE UNCHANGED e_result
    /\ e_pc' = "rereviewing"
    /\ UNCHANGED <<mode, auto_save, auto_execute, e_max_iterations,
                   full_context, e_iteration, disk, writes, e_calls, e_retval,
                   coVars, apVars, reVars>>

\* lines 595-599: re-review
EnRereview ==
    /\ e_pc = "rereviewing"
    /\ \/ /\ EnRaise("reviewer")
          /\ UNCHANGED e_result
       \/ /\ EnCalled("reviewer")
          /\ \E review \in CheckTexts :
                e_result' = [e_result EXCEPT !.review = review]
          /\ e_pc' = "loop"
          /\ UNCHANGED e_retval
    /\ UNCHANGED <<mode, auto_save, auto_execute, e_max_iterations,
                   full_context, e_iteration, disk, writes,
                   coVars, apVars, reVars>>

InitEnhanced ==
    IdleOrchestrator /\ InitApproval /\ IdleReasoner /\ ConstructEnhanced

NextEnhanced ==
    \/ EnBegin
    \/ EnGather
    \/ EnPlan
    \/ EnCode
    \/ EnSave
    \/ EnExecute
    \/ EnReview
    \/ EnLoopHead
    \/ EnFix
    \/ EnResave
    \/ EnReexecute
    \/ EnRereview

SpecEnhanced == InitEnhanced /\ [][NextEnhanced]_vars

(***************************************************************************)
(* Properties of CodingOrchestrator (specification Spec)                   *)
(***************************************************************************)
FailedCalls == {i \in DOMAIN calls : ~calls[i].ok}
AllCallsSucceeded == FailedCalls = {}

\* the reviewing records of the history whose review is_approved accepts
ApprovedRecords ==
    {i \in DOMAIN result.history :
        /\ result.history[i].phase = "reviewing"
        /\ is_approved(result.history[i].output)}

\* run() is over (it returned, or an exception left it) after calling agents
RunEnded == op = "run" /\ pc \in {"returned", "raised"} /\ calls # <<>>
Returned(res) == retval = [kind |-> "result", value |-> res]

PhaseOf(agent) ==
    CASE agent = "planner" -> "planning"
      [] agent = "coder" -> "coding"
      [] agent = "reviewer" -> "reviewing"

\* C1: for every max_iterations = N >= 0, a run whose agent calls all succeed
\* and whose reviews are never approved has made exactly N coder and N
\* reviewer calls when it ends, its result is COMPLETED with iterations = N,
\* and that result is what a returning run returns.
C1_ExhaustionCompletes ==
    (RunEnded /\ AllCallsSucceeded /\ ApprovedRecords = {}) =>
        /\ Len(CoderCalls) = max_iterations
        /\ Len(ReviewerCalls) = max_iterations
        /\ result.status = "completed"
        /\ result.iterations = max_iterations
        /\ (pc = "returned" => Returned(result))

C1_Witness ==
    /\ RunEnded /\ pc = "returned" /\ AllCallsSucceeded /\ ApprovedRecords = {}
    /\ max_iterations >= 2
    /\ Len(ReviewerCalls) = max_iterations
    /\ result.status = "completed"

\* C6: when the planning call fails, run returns the result at once with
\* status FAILED, iterations 0, no coder or reviewer call and an empty history.
PlanningFailed ==
    op = "run" /\ calls # <<>> /\ calls[1].agent = "planner" /\ ~calls[1].ok

C6_PlanningFailureReturns ==
    PlanningFailed =>
        /\ pc = "returned"
        /\ Returned(result)
        /\ result.status = "failed"
        /\ result.iterations = 0
        /\ Len(calls) = 1
        /\ result.history = <<>>

C6_Witness == PlanningFailed /\ pc = "returned" /\ max_iterations > 0

\* C7: when the coder or the reviewer call fails, that call is the last agent
\* call of the run, the run has returned its result with status FAILED, and
\* the history holds one record for each call that succeeded before it.
C7_IterationFailureAborts ==
    \A i \in DOMAIN calls :
        (op = "run" /\ ~calls[i].ok /\ calls[i].agent \in {"coder", "reviewer"}) =>
            /\ i = Len(calls)
            /\ pc = "returned"
            /\ Returned(result)
            /\ result.status = "failed"
            /\ Len(result.history) = i - 1
            /\ \A j \in 1..(i - 1) :
                  /\ calls[j].ok
                  /\ result.history[j].phase = PhaseOf(calls[j].agent)
                  /\ result.history[j].iteration = calls[j].iteration

C7_Witness ==
    /\ op = "run" /\ pc = "returned" /\ Len(calls) >= 4
    /\ ~calls[Len(calls)].ok
    /\ calls[Len(calls)].agent = "reviewer"
    /\ Len(result.history) = Len(calls) - 1

\* C8: an approved review is the last record of the history: the run is
\* COMPLETED with iterations = k, k coder calls and k reviewer calls, and the
\* loop has been left.
C8_ApprovalStopsLoop ==
    op = "run" =>
        \A i \in ApprovedRecords :
            LET k == result.history[i].iteration
            IN  /\ i = Len(result.history)
                /\ 1 <= k /\ k <= max_iterations
                /\ result.status = "completed"
                /\ result.iterations = k
                /\ Len(CoderCalls) = k
                /\ Len(ReviewerCalls) = k
                /\ pc \in {"finish", "store", "returned", "raised"}

C8_Witness ==
    /\ op = "run" /\ pc = "returned" /\ ApprovedRecords # {}
    /\ result.iterations = 2 /\ max_iterations > 2
    /\ Len(CoderCalls) = 2

\* C9: a failing knowledge-store write does not keep run() from returning
\* the COMPLETED result.
StoreFailed ==
    /\ op = "run" /\ kb_calls # <<>>
    /\ kb_calls[Len(kb_calls)].method = "add_code"
    /\ ~kb_calls[Len(kb_calls)].ok

C9_StoreFailureStillReturns ==
    StoreFailed =>
        /\ pc = "returned"
        /\ Returned(result)
        /\ result.status = "completed"

\* C10: a failing context lookup is treated as empty context: no exception
\* leaves run, plan_only or quick_code, and the agent is called without
\* knowledge-base context.
LookupFailed ==
    \E i \in DOMAIN kb_calls :
        kb_calls[i].method = "get_context_for_task" /\ ~kb_calls[i].ok

C10_LookupFailureSwallowed ==
    LookupFailed =>
        /\ pc # "raised"
        /\ (pc = "returned" => calls # <<>>)
        /\ (calls # <<>> =>
               calls[1].context = OrNone(IF existing_code # <<>>
                                         THEN <<"## Existing Code:">> \o existing_code
                                         ELSE <<>>))

\* the n-th record of the order Plan, then (Code, Review)+
ExpectedPhase(n) ==
    IF n = 1 THEN "planning" ELSE IF n % 2 = 0 THEN "coding" ELSE "reviewing"
ExpectedIteration(n) == n \div 2

HistoryInOrder(h) ==
    \A n \in DOMAIN h :
        /\ h[n].phase = ExpectedPhase(n)
        /\ h[n].iteration = ExpectedIteration(n)

IsPrefix(s, t) == Len(s) <= Len(t) /\ SubSeq(t, 1, Len(s)) = s

SuccessfulCalls == SelectSeq(calls, LAMBDA c : c.ok)

\* C14 (as claimed): every result that run returns has a history of exactly
\* one planning record (iteration 0) followed by coding and reviewing records
\* that alternate with indices 1,1,2,2,...; a COMPLETED result with
\* iterations = k has 1 + 2k records.
C14_HistoryStartsWithPlan ==
    (op = "run" /\ pc = "returned") =>
        /\ Len(result.history) >= 1
        /\ HistoryInOrder(result.history)
        /\ (result.status = "completed" =>
               Len(result.history) = 1 + 2 * result.iterations)

\* C14 (amended): at every point of run the history is a prefix of the order
\* planning(0), coding(1), reviewing(1), coding(2), ..., with one record for
\* each agent call that succeeded, in the order of the calls; a COMPLETED
\* result with iterations = k has 1 + 2k records; and no step removes or
\* changes a record.
C14_HistoryInCallOrder ==
    /\ [](op = "run" =>
            /\ HistoryInOrder(result.history)
            /\ Len(result.history) = Len(SuccessfulCalls)
            /\ \A n \in DOMAIN result.history :
                  result.history[n].phase = PhaseOf(SuccessfulCalls[n].agent)
            /\ (result.status = "completed" /\ pc = "returned" =>
                   Len(result.history) = 1 + 2 * result.iterations))
    /\ [][result.status # "none" =>
             IsPrefix(result.history, result'.history)]_vars

C14_Witness ==
    /\ op = "run" /\ pc = "returned"
    /\ result.status = "completed"
    /\ result.iterations = 2
    /\ Len(result.history) = 5

\* C15: result.iterations never exceeds max_iterations, and no step of the
\* run lowers it.
C15_IterationsBounded ==
    /\ [](result.status # "none" => result.iterations <= max_iterations)
    /\ [][result.status # "none" =>
             result'.iterations >= result.iterations]_vars

C15_Witness ==
    /\ op = "run" /\ pc = "returned"
    /\ max_iterations >= 2
    /\ result.iterations = max_iterations

\* the calls of plan_only that reached the planner, as positions of the log
PlanOnlyCalls ==
    {i \in DOMAIN calls : calls[i].agent = "planner" /\ calls[i].op = "plan_only"}

\* a plan_only call that returned hands out the answer of its own model call
OwnOutput ==
    /\ calls # <<>>
    /\ Len(calls) \in PlanOnlyCalls
    /\ calls[Len(calls)].ok
    /\ planner_history # <<>>
    /\ retval = [kind |-> "text",
                 value |-> planner_history[Len(planner_history)].content]

Edges == {
    <<"pending", "planning">>, <<"planning", "coding">>,
    <<"coding", "reviewing">>, <<"reviewing", "completed">>,
    <<"reviewing", "fixing">>, <<"fixing", "coding">>,
    <<"planning", "failed">>, <<"coding", "failed">>,
    <<"reviewing", "failed">>}

\* C19: every status change of a run follows an edge of the state machine,
\* COMPLETED and FAILED are never left, and every returned result is
\* COMPLETED or FAILED.
C19_StatusFollowsEdges ==
    /\ [][(op = "run" /\ result.status # "none"
              /\ result'.status # result.status) =>
             <<result.status, result'.status>> \in Edges]_vars
    /\ [][(op = "run" /\ result.status \in {"completed", "failed"}) =>
             result'.status = result.status]_vars
    /\ []((op = "run" /\ pc = "returned") =>
             result.status \in {"completed", "failed"})

\* C20: a run is in status FIXING only after a review that was not approved
\* and with its iteration count still below max_iterations.
C20_FixingBelowMax ==
    (op = "run" /\ result.status = "fixing") =>
        /\ ~is_approved(result.review)
        /\ result.iterations < max_iterations

\* the calls run() made to the coder, as positions of the log
RunCoderCalls ==
    {i \in DOMAIN calls : op = "run" /\ calls[i].agent = "coder"}

\* C21: the coder call of iteration 1 is implement_plan on the plan; the
\* coder call of every iteration k > 1 is fix_code on the code and the review
\* that iteration k-1 put into the history, and it is not given the plan.
C21_FixTakesPreviousCodeAndReview ==
    \A i \in RunCoderCalls :
        LET k == calls[i].iteration
        IN  IF k = 1
            THEN /\ calls[i].method = "implement_plan"
                 /\ calls[i].plan = result.plan
            ELSE /\ calls[i].method = "fix_code"
                 /\ "plan" \notin DOMAIN calls[i]
                 /\ result.history[2 * (k - 1)] =
                       IterationRecord("coding", k - 1, calls[i].code)
                 /\ result.history[2 * k - 1] =
                       IterationRecord("reviewing", k - 1, calls[i].issues)

\* a run returned after a fix call of iteration 2 that was given code
C21_Witness ==
    /\ op = "run" /\ pc = "returned"
    /\ \E i \in RunCoderCalls :
          /\ calls[i].iteration = 2
          /\ calls[i].ok
          /\ calls[i].method = "fix_code"
          /\ calls[i].code # <<>>

(***************************************************************************)
(* Properties of is_approved (specification SpecApproval)                  *)
(***************************************************************************)
Classified == verdict # "none"

\* the text of the section under header, case-folded to upper case
SectionUpper(review, header) == UpperText(SectionAfter(review, header))

\* the Review Summary section says APPROVED and the text has no NEEDS_CHANGES
SummaryApproves(review) ==
    /\ InText("## Review Summary", review)
    /\ InText("APPROVED", SectionUpper(review, "## Review Summary"))
    /\ ~InText("NEEDS_CHANGES", UpperText(review))

\* the Critical Issues section holds text that is not just a negation
NegationTexts == {<<"None identified">>}
HasCriticalIssue(review) ==
    /\ InText("## Critical Issues", review)
    /\ Strip(SectionAfter(review, "## Critical Issues")) # <<>>
    /\ Strip(SectionAfter(review, "## Critical Issues")) \notin NegationTexts

\* C2: a review whose summary says APPROVED but whose Critical Issues section
\* lists a real issue is classified not approved.
C2_CriticalIssuesOverride ==
    (Classified /\ SummaryApproves(review_in) /\ HasCriticalIssue(review_in))
        => verdict = "not approved"

\* C16: a review that has the Review Summary header and contains
\* NEEDS_CHANGES is classified not approved, whatever else it contains.
C16_NeedsChangesRejects ==
    (Classified /\ InText("## Review Summary", review_in)
                /\ InText("NEEDS_CHANGES", review_in))
        => verdict = "not approved"

\* the Critical Issues section consists of a negation only
OnlyNegation(review) ==
    /\ InText("## Critical Issues", review)
    /\ Strip(SectionAfter(review, "## Critical Issues")) \in NegationTexts

\* C17: a review whose summary says APPROVED, that has no NEEDS_CHANGES and
\* whose Critical Issues section is only a negation is classified approved.
C17_NegatedIssuesApprove ==
    (Classified /\ SummaryApproves(review_in) /\ OnlyNegation(review_in))
        => verdict = "approved"

C17_Witness ==
    /\ review_in = <<"## Review Summary", "APPROVED", "## Critical Issues",
                     "None identified">>
    /\ verdict = "approved"

\* the text of the Critical Issues section, stripped
CriticalSection(review) == Strip(SectionAfter(review, "## Critical Issues"))

\* C22: a review that is classified approved contains APPROVED in some letter
\* case; a review without it is classified not approved, whatever sections
\* it has, also when its Critical Issues section is empty or a negation.
C22_ApprovedNeedsKeyword ==
    (Classified /\ ~InText("APPROVED", UpperText(review_in)))
        => verdict = "not approved"

\* a classified review without APPROVED whose Critical Issues section is
\* empty or only a negation
C22_Witness ==
    /\ Classified
    /\ ~InText("APPROVED", UpperText(review_in))
    /\ InText("## Critical Issues", review_in)
    /\ \/ CriticalSection(review_in) = <<>>
       \/ CriticalSection(review_in) \in NegationTexts
    /\ verdict = "not approved"

\* C23: a review without a Review Summary header whose Critical Issues
\* section holds a real issue that contains the word "none" is classified
\* not approved.
C23_NoneInsideIssueRejects ==
    (/\ Classified
     /\ ~InText("## REVIEW SUMMARY", UpperText(review_in))
     /\ HasCriticalIssue(review_in)
     /\ InText("none", LowerText(CriticalSection(review_in))))
        => verdict = "not approved"

\* the review with its Critical Issues headers written in upper case
HeaderUpper(review) ==
    [i \in DOMAIN review |->
        IF review[i] = "## Critical Issues" THEN "## CRITICAL ISSUES"
        ELSE review[i]]

\* C24: a review and the same review with the Critical Issues header in
\* upper case get the same verdict.
C24_HeaderCaseIrrelevant ==
    Classified =>
        ((verdict = "approved") <=> is_approved(HeaderUpper(review_in)))

(***************************************************************************)
(* Properties of HierarchicalReasoner.reason (specification SpecReason)    *)
(***************************************************************************)
\* json.loads is not reached, or rejects the text
Unparseable(response) ==
    \/ response.start = -1
    \/ response.end <= response.start
    \/ ~response.valid

\* the thought carries the text: it is the text, or the serialisation of a
\* dict that holds it as its description or raw_response
Mentions(thought, id) ==
    IF thought.kind = "text" THEN thought.text = id
    ELSE \E k \in DOMAIN thought.dict \cap {"description", "raw_response"} :
            thought.dict[k] = id

MalformedCalls ==
    {i \in DOMAIN model_calls : Unparseable(model_calls[i].response)}

\* the confidence a node gets from an unparseable response, by level
DegradedConfidence(level) ==
    IF level \in {"tactical", "operational"} THEN FallbackConfidence
    ELSE DefaultConfidence

\* C4 (as claimed): every node made from an unparseable response carries the
\* raw text and has confidence 0.5, at each of the four levels, and reason()
\* does not raise on it.
C4_MalformedConfidenceHalf ==
    /\ \A i \in MalformedCalls :
          /\ model_calls[i].created # {}
          /\ \A n \in model_calls[i].created :
                /\ Mentions(all_nodes[n].thought, model_calls[i].response.id)
                /\ all_nodes[n].confidence = FallbackConfidence
    /\ (r_pc = "raised" => Len(model_calls) \notin MalformedCalls)

\* C4 (amended): an unparseable response makes exactly one node, which
\* carries the raw text; its confidence is 0.5 at the tactical and operational
\* levels and 0.7 at the strategic and reflective levels; handling it does
\* not raise.
C4_MalformedDegrades ==
    /\ \A i \in MalformedCalls :
          /\ Cardinality(model_calls[i].created) = 1
          /\ \A n \in model_calls[i].created :
                /\ all_nodes[n].level = model_calls[i].level
                /\ Mentions(all_nodes[n].thought, model_calls[i].response.id)
                /\ all_nodes[n].confidence =
                      DegradedConfidence(model_calls[i].level)
    /\ (r_pc = "raised" => Len(model_calls) \notin MalformedCalls)

C4_Witness ==
    /\ r_pc = "returned"
    /\ Len(model_calls) = 4
    /\ MalformedCalls = DOMAIN model_calls
    /\ {model_calls[i].level : i \in DOMAIN model_calls} =
          {"strategic", "tactical", "operational", "reflective"}

ReasonEnded == r_pc \in {"returned", "raised"}

NodesAt(level) == {n \in DOMAIN all_nodes : all_nodes[n].level = level}

\* C5: whatever the model answers, reason() returns a trace with exactly one
\* selected strategic node, exactly one operational child under every
\* tactical node, and exactly one reflective node, which has no children.
C5_TreeShape ==
    ReasonEnded =>
        /\ r_pc = "returned"
        /\ trace.kind = "trace"
        /\ Cardinality({n \in Range(trace.root_nodes) : all_nodes[n].selected}) = 1
        /\ \A n \in NodesAt("tactical") :
              /\ Len(all_nodes[n].children) = 1
              /\ all_nodes[n].children[1] \in NodesAt("operational")
        /\ Cardinality(NodesAt("reflective")) = 1
        /\ \A n \in NodesAt("reflective") : all_nodes[n].children = <<>>

\* the selection of line 337 has been made
SelectionMade == r_pc \in {"tactical", "operational", "compile", "returned"}

StrategicConfidence(i) == all_nodes[strategic_nodes[i]].confidence

\* C25: the selected node is the first strategic node, in generation order,
\* among those of largest confidence; it alone is expanded: every other
\* strategic node stays unselected and without children.
C25_FirstMaxSelected ==
    SelectionMade =>
        \E i \in DOMAIN strategic_nodes :
            /\ best_strategic = strategic_nodes[i]
            /\ all_nodes[strategic_nodes[i]].selected
            /\ \A j \in DOMAIN strategic_nodes :
                  StrategicConfidence(j) <= StrategicConfidence(i)
            /\ \A j \in 1..(i - 1) :
                  StrategicConfidence(j) < StrategicConfidence(i)
            /\ \A j \in DOMAIN strategic_nodes \ {i} :
                  /\ ~all_nodes[strategic_nodes[j]].selected
                  /\ all_nodes[strategic_nodes[j]].children = <<>>
            /\ (r_pc # "tactical" =>
                   all_nodes[strategic_nodes[i]].children = tactical_nodes)

\* reason() returned after a tie of two strategic nodes at the largest
\* confidence, and the selected one was expanded
C25_Witness ==
    /\ r_pc = "returned"
    /\ Len(strategic_nodes) = 2
    /\ StrategicConfidence(1) = StrategicConfidence(2)
    /\ all_nodes[strategic_nodes[1]].selected
    /\ all_nodes[strategic_nodes[1]].children # <<>>

\* the nodes that name node n as their parent, and those that hold it as a child
Parents(n) ==
    {m \in DOMAIN all_nodes : all_nodes[m].id = all_nodes[n].parent_id}
Holders(n) ==
    {m \in DOMAIN all_nodes : n \in Range(all_nodes[m].children)}

\* C26: when reason() has returned, every node that is not strategic has
\* exactly one parent: its parent_id is set, exactly one node holds it as a
\* child, that node is the one parent_id names, and it was created earlier.
C26_OneParent ==
    r_pc = "returned" =>
        \A n \in DOMAIN all_nodes :
            all_nodes[n].level # "strategic" =>
                /\ all_nodes[n].parent_id # 0
                /\ Cardinality(Holders(n)) = 1
                /\ Holders(n) = Parents(n)
                /\ \A m \in Parents(n) : m < n

\* C27: within one reason() call the ids are node_1, node_2, ... in creation
\* order, hence pairwise distinct, also on a reasoner that served before; the
\* returned trace counts exactly these nodes.
C27_IdsCountFromOne ==
    /\ \A n \in DOMAIN all_nodes : all_nodes[n].id = n
    /\ (r_pc \notin {"idle", "raised"} => node_counter = Len(all_nodes))
    /\ (r_pc = "returned" => trace.total_nodes_explored = Len(all_nodes))

\* the second reason() call on a reasoner returned a trace
C27_Witness ==
    /\ reason_calls = 2
    /\ r_pc = "returned"
    /\ trace.total_nodes_explored >= 4
    /\ all_nodes[1].id = 1

\* C28: every node has a confidence between 0 and 1 (0 and 10 tenths),
\* whatever the responses carry as confidence.
C28_ConfidenceInUnitInterval ==
    \A n \in DOMAIN all_nodes : all_nodes[n].confidence \in 0..10

(***************************************************************************)
(* Properties of EnhancedOrchestrator.run (specification SpecEnhanced)     *)
(***************************************************************************)
\* the files on disk that lie outside the workspace root
Outside == {l \in DOMAIN disk : ~IsRelativeTo(l, workspace_dir)}

\* C3: in a sandboxed mode (any mode but AUTONOMOUS) no step of run() writes
\* an extracted file block outside the workspace root, whether its path is
\* absolute or climbs out with ".."
C3_SandboxedWritesStayInside ==
    sandbox_mode => Outside = {}

\* EnSave or EnResave has just run _extract_and_save_files on e_result.code
JustExtracted == e_pc \in {"executing", "reexecuting"}

ExtractedMatches == Matches(e_result.code)
MatchPath(m) == PathStrip(m.path)
MatchTarget(m) == FullPath(MatchPath(m))

\* the attempts of the extraction that succeeded, in order
Saved == SelectSeq(writes, LAMBDA w : w.ok)
SavedPaths == [k \in DOMAIN Saved |-> Saved[k].file_path]

\* the list the extraction returned, as run() keeps it (lines 542-543, 583-584)
ReturnedList ==
    IF e_pc = "executing" THEN e_result.files_created
    ELSE SubSeq(e_result.files_modified,
                Len(e_result.files_modified) - Len(Saved) + 1,
                Len(e_result.files_modified))

\* the first match, in pattern order then document order, for a location
FirstMatchOf(l) ==
    CHOOSE i \in DOMAIN ExtractedMatches :
        /\ MatchTarget(ExtractedMatches[i]) = l
        /\ \A j \in 1..(i - 1) : MatchTarget(ExtractedMatches[j]) # l

\* C11: within one extraction call, the matches whose paths resolve to the
\* same file give exactly one returned entry and the file holds the content
\* of the first of them, also when the path strings are spelled differently
\* (stated for the files none of whose writes failed)
C11_FirstMatchWins ==
    JustExtracted =>
        \A l \in {writes[k].full_path : k \in DOMAIN writes} :
            (\A k \in DOMAIN writes : writes[k].full_path = l => writes[k].ok)
            => /\ Cardinality({k \in DOMAIN Saved : Saved[k].full_path = l}) = 1
               /\ disk[l] = Strip(ExtractedMatches[FirstMatchOf(l)].content)

\* C12: a write that fails does not abort the extraction: every matched path
\* is attempted, and the returned list is exactly the paths whose write
\* succeeded, each of which is on disk
C12_FailureDoesNotAbort ==
    (JustExtracted /\ auto_save) =>
        /\ \A i \in DOMAIN ExtractedMatches :
              \E k \in DOMAIN writes :
                  writes[k].file_path = MatchPath(ExtractedMatches[i])
        /\ ReturnedList = SavedPaths
        /\ \A k \in DOMAIN Saved : Saved[k].full_path \in DOMAIN disk

C12_Witness ==
    /\ e_pc = "executing"
    /\ Len(writes) = 2
    /\ ~writes[1].ok
    /\ writes[2].ok
    /\ e_result.files_created = <<writes[2].file_path>>

\* the entry a result's error list would hold for a path that was not saved
\* (the text the code logs at line 776)
SaveFailureNote(file_path) == <<"Failed to save", file_path>>

\* C13: when run() has returned, every path whose write failed in the
\* extraction is in a list of failures of the returned result
C13_FailuresSurfaced ==
    e_pc = "returned" =>
        \A k \in DOMAIN writes :
            ~writes[k].ok =>
                InSeq(SaveFailureNote(writes[k].file_path), e_result.errors)

\* how many calls of the log went to an agent
EnCallsTo(agent) == Len(SelectSeq(e_calls, LAMBDA c : c.agent = agent))

\* C29: a fix cycle starts only when the latest review is not approved and
\* fewer than max_iterations cycles have run; an approved first review ends
\* the run with iterations = 0; a returned result has iterations <=
\* max_iterations, after exactly 1 + iterations coder calls and exactly
\* 1 + iterations reviewer calls.
C29_FixCyclesBounded ==
    /\ [](e_pc = "returned" =>
             /\ e_result.iterations <= e_max_iterations
             /\ e_result.iterations = e_iteration
             /\ EnCallsTo("coder") = 1 + e_result.iterations
             /\ EnCallsTo("reviewer") = 1 + e_result.iterations
             /\ \A i \in DOMAIN e_calls : e_calls[i].ok)
    /\ [][(e_pc = "loop" /\ e_pc' = "fixing") =>
             /\ ~is_approved(e_result.review)
             /\ e_iteration < e_max_iterations]_vars
    /\ [][(e_pc = "loop" /\ e_iteration = 0 /\ is_approved(e_result.review)) =>
             /\ e_pc' = "returned"
             /\ e_result'.iterations = 0]_vars

\* a run returned after one fix cycle, ended by an approving review with a
\* cycle to spare
C29_Witness ==
    /\ e_pc = "returned"
    /\ e_result.iterations = 1
    /\ e_max_iterations = 2
    /\ is_approved(e_result.review)
    /\ EnCallsTo("coder") = 2

\* the files a returned run handed to _execute_generated_code
ExecutedFiles == Range(e_result.files_created \o e_result.files_modified)

\* the one program of CodeDocs with an entry name: main.py, which prints a
\* number and exits with code 0 when it is run
ExitZeroProgram == PathStr(FALSE, <<"main.py">>, FALSE)

====
